---- MODULE Spec2Model ----
(***************************************************************************)
(* A model of thunder/dynamo/splitter.py: _splitter partitions the call    *)
(* nodes of a traced fx graph into contiguous thunder-supported and        *)
(* unsupported regions, compiles each region with thunder or inductor,     *)
(* renames the submodules and returns the split graph with a SubgraphInfo. *)
(***************************************************************************)
EXTENDS Integers, Sequences, FiniteSets, TLC

VARIABLES
    gm,                               \* the input graph: a sequence of nodes
    pc,                               \* position of _splitter
    idx,                              \* split_module's position in gm.graph.nodes
    prev_value,                       \* <<>> is None, <<b>> is the boolean b
    partition_cnt,
    supported_partitions,
    split_reasons,
    has_thunder_tracable_checkpoint,
    partition_of,                     \* what split_module got back: {<<node, id>>}
    graphs,                           \* the split graph objects: "orig", "copy"
    split_gm,                         \* the local split_gm: "none" or a graph object
    origin_split_gm,                  \* the local origin_split_gm
    pos,                              \* the assembly loop's position in split_gm.graph.nodes
    thunder_compiled_fns,
    submodule_to_compiled_fns,        \* a dict, kept as a set of <<key, value>> items
    calls,                            \* the collaborator calls made, in order
    result,                           \* <<>> until _splitter returns
    run2                              \* the closure state of a second run (SpecRerun)

vars == <<gm, pc, idx, prev_value, partition_cnt, supported_partitions, split_reasons,
          has_thunder_tracable_checkpoint, partition_of, graphs, split_gm, origin_split_gm,
          pos, thunder_compiled_fns, submodule_to_compiled_fns, calls, result, run2>>

----------------------------------------------------------------------------
(* Bounds *)

\* the input graph has at most MaxBody nodes before its output node
MaxBody == 3

----------------------------------------------------------------------------
(* The input graph *)

None == "None"

UNSUPPORTED_NODE == "UNSUPPORTED_NODE"
MISSING_OP_SUPPORT == "MISSING_OP_SUPPORT"

tag_activation_checkpoint == "tag_activation_checkpoint"

\* the assertion with call_function listed in the place of get_attr
StructuralOpsMistyped == {"placeholder", "call_function", "output"}

\* the node kinds the callback refuses
StructuralOps == {"placeholder", "get_attr", "output"}

\* the node kinds split_module never hands to split_callback
SplitModuleSkips == {"placeholder", "get_attr", "output"}

\* What is_node_supported_by_thunder answers for a node: the verdict and the kind
\* of the reason it gives (None for no reason). A supported verdict carries no
\* UNSUPPORTED_NODE reason.
PredicateAnswers ==
    {a \in [sup : BOOLEAN, reason : {None, MISSING_OP_SUPPORT, UNSUPPORTED_NODE}] :
        a.sup => a.reason # UNSUPPORTED_NODE}

\* A node of the traced graph. ctx: the node lies in an unsupported context region;
\* sup, reason: what the support predicate answers for it. The predicate is not
\* asked about a node in a context region, so one supported and one unsupported
\* answer stand for all of them there.
CallNodes ==
    {n \in [op : {"call_function"}, target : {"op", tag_activation_checkpoint},
            ctx : BOOLEAN, sup : BOOLEAN,
            reason : {None, MISSING_OP_SUPPORT, UNSUPPORTED_NODE}] :
        /\ [sup |-> n.sup, reason |-> n.reason] \in PredicateAnswers
        /\ n.ctx => n.reason = (IF n.sup THEN None ELSE MISSING_OP_SUPPORT)}

StructuralNodes ==
    {[op |-> "placeholder", target |-> "arg", ctx |-> FALSE, sup |-> FALSE, reason |-> None]}
    \cup {[op |-> "get_attr", target |-> "attr", ctx |-> c, sup |-> FALSE, reason |-> None] :
            c \in BOOLEAN}

OutputNode == [op |-> "output", target |-> "output", ctx |-> FALSE, sup |-> FALSE, reason |-> None]

BodyNodes == CallNodes \cup StructuralNodes

Graphs == {body \o <<OutputNode>> : body \in UNION {[1..n -> BodyNodes] : n \in 0..MaxBody}}

\* node identity: the graph object and the node's place in it; node.name is the place
NodeOf(g, i) == [graph |-> g, name |-> i]

get_nodes_in_unsupported_ctx_regions(g) ==
    {NodeOf(g, i) : i \in {j \in 1..Len(gm) : gm[j].ctx}}

\* the split_reason None, as a record so that it compares with a SplitReason
NoReason == [reason_type |-> None, about |-> None, name |-> 0, target |-> None]

is_node_supported_by_thunder(i) ==
    [sup |-> gm[i].sup,
     reason |-> IF gm[i].reason = None THEN NoReason
                ELSE [reason_type |-> gm[i].reason, about |-> "operator",
                      name |-> i, target |-> gm[i].target]]

----------------------------------------------------------------------------
(* The partition callback *)

Closure ==
    [prev_value |-> prev_value, partition_cnt |-> partition_cnt,
     supported_partitions |-> supported_partitions, split_reasons |-> split_reasons,
     has_thunder_tracable_checkpoint |-> has_thunder_tracable_checkpoint]

\* Classify without the override: the predicate's verdict stands in a context region
ClassifyNoOverride(cl, g, i) ==
    LET a == is_node_supported_by_thunder(i)
        inctx == NodeOf(g, i) \in get_nodes_in_unsupported_ctx_regions(g)
        c1 == IF gm[i].target = tag_activation_checkpoint /\ a.sup
              THEN [cl EXCEPT !.has_thunder_tracable_checkpoint = TRUE]
              ELSE cl
        c2 == IF inctx
              THEN [c1 EXCEPT !.split_reasons =
                       Append(@, [reason_type |-> UNSUPPORTED_NODE,
                                  about |-> "unsupported context",
                                  name |-> i, target |-> gm[i].target])]
              ELSE IF a.reason # NoReason
                   THEN [c1 EXCEPT !.split_reasons = Append(@, a.reason)]
                   ELSE c1
    IN [is_thunder_supported |-> a.sup, cl |-> c2]

\* Classify without lines 120-121: the checkpoint flag is never set
ClassifyNoFlag(cl, g, i) ==
    IF NodeOf(g, i) \in get_nodes_in_unsupported_ctx_regions(g)
    THEN [is_thunder_supported |-> FALSE,
          cl |-> [cl EXCEPT !.split_reasons =
                     Append(@, [reason_type |-> UNSUPPORTED_NODE,
                                about |-> "unsupported context",
                                name |-> i, target |-> gm[i].target])]]
    ELSE LET a == is_node_supported_by_thunder(i)
         IN [is_thunder_supported |-> a.sup,
             cl |-> IF a.reason # NoReason
                    THEN [cl EXCEPT !.split_reasons = Append(@, a.reason)]
                    ELSE cl]

\* Classify with the predicate's reason recorded for an unsupported verdict only
ClassifyReasonIfUnsupported(cl, g, i) ==
    IF NodeOf(g, i) \in get_nodes_in_unsupported_ctx_regions(g)
    THEN [is_thunder_supported |-> FALSE,
          cl |-> [cl EXCEPT !.split_reasons =
                     Append(@, [reason_type |-> UNSUPPORTED_NODE,
                                about |-> "unsupported context",
                                name |-> i, target |-> gm[i].target])]]
    ELSE LET a == is_node_supported_by_thunder(i)
             c1 == IF gm[i].target = tag_activation_checkpoint /\ a.sup
                   THEN [cl EXCEPT !.has_thunder_tracable_checkpoint = TRUE]
                   ELSE cl
             c2 == IF a.reason # NoReason /\ ~a.sup
                   THEN [c1 EXCEPT !.split_reasons = Append(@, a.reason)]
                   ELSE c1
         IN [is_thunder_supported |-> a.sup, cl |-> c2]

\* Classify with the checkpoint test made before the context test: a checkpoint node
\* the predicate supports sets the flag in a context region too
ClassifyFlagInContext(cl, g, i) ==
    LET a == is_node_supported_by_thunder(i)
        c0 == IF gm[i].target = tag_activation_checkpoint /\ a.sup
              THEN [cl EXCEPT !.has_thunder_tracable_checkpoint = TRUE]
              ELSE cl
    IN IF NodeOf(g, i) \in get_nodes_in_unsupported_ctx_regions(g)
       THEN [is_thunder_supported |-> FALSE,
             cl |-> [c0 EXCEPT !.split_reasons =
                        Append(@, [reason_type |-> UNSUPPORTED_NODE,
                                   about |-> "unsupported context",
                                   name |-> i, target |-> gm[i].target])]]
       ELSE [is_thunder_supported |-> a.sup,
             cl |-> IF a.reason # NoReason
                    THEN [c0 EXCEPT !.split_reasons = Append(@, a.reason)]
                    ELSE c0]

\* lines 108-123: the verdict for the node, and the closure with the reason recorded
Classify(cl, g, i) ==
    IF NodeOf(g, i) \in get_nodes_in_unsupported_ctx_regions(g)
    THEN [is_thunder_supported |-> FALSE,
          cl |-> [cl EXCEPT !.split_reasons =
                     Append(@, [reason_type |-> UNSUPPORTED_NODE,
                                about |-> "unsupported context",
                                name |-> i, target |-> gm[i].target])]]
    ELSE LET a == is_node_supported_by_thunder(i)
             c1 == IF gm[i].target = tag_activation_checkpoint /\ a.sup
                   THEN [cl EXCEPT !.has_thunder_tracable_checkpoint = TRUE]
                   ELSE cl
             c2 == IF a.reason # NoReason
                   THEN [c1 EXCEPT !.split_reasons = Append(@, a.reason)]
                   ELSE c1
         IN [is_thunder_supported |-> a.sup, cl |-> c2]

\* Assign with the id keyed on the verdict: 1 for supported, 2 for unsupported
AssignBySupport(cl, is_thunder_supported) ==
    LET id == IF is_thunder_supported THEN 1 ELSE 2
    IN [ret |-> id,
        cl |-> [cl EXCEPT !.prev_value = <<is_thunder_supported>>,
                          !.partition_cnt = IF id > @ THEN id ELSE @,
                          !.supported_partitions =
                              IF is_thunder_supported THEN @ \cup {id} ELSE @]]

\* Assign with the id added to supported_partitions before the count is bumped
AssignAddBeforeBump(cl, is_thunder_supported) ==
    IF cl.prev_value = <<is_thunder_supported>>
    THEN [ret |-> cl.partition_cnt, cl |-> cl]
    ELSE LET cnt == cl.partition_cnt + 1
         IN [ret |-> cnt,
             cl |-> [cl EXCEPT !.prev_value = <<is_thunder_supported>>,
                               !.partition_cnt = cnt,
                               !.supported_partitions =
                                   IF is_thunder_supported THEN @ \cup {cl.partition_cnt}
                                   ELSE @]]

\* Assign with prev_value never updated
AssignNoPrevUpdate(cl, is_thunder_supported) ==
    IF cl.prev_value = <<is_thunder_supported>>
    THEN [ret |-> cl.partition_cnt, cl |-> cl]
    ELSE LET cnt == cl.partition_cnt + 1
         IN [ret |-> cnt,
             cl |-> [cl EXCEPT !.partition_cnt = cnt,
                               !.supported_partitions =
                                   IF is_thunder_supported THEN @ \cup {cnt} ELSE @]]

\* Assign with the initial None of prev_value comparing equal to False
AssignSentinelFalse(cl, is_thunder_supported) ==
    IF cl.prev_value = <<is_thunder_supported>> \/ (cl.prev_value = <<>> /\ ~is_thunder_supported)
    THEN [ret |-> cl.partition_cnt, cl |-> cl]
    ELSE LET cnt == cl.partition_cnt + 1
         IN [ret |-> cnt,
             cl |-> [cl EXCEPT !.prev_value = <<is_thunder_supported>>,
                               !.partition_cnt = cnt,
                               !.supported_partitions =
                                   IF is_thunder_supported THEN @ \cup {cnt} ELSE @]]

\* Assign with supported_partitions set to the new id in the place of adding it
AssignReplaceSupported(cl, is_thunder_supported) ==
    IF cl.prev_value = <<is_thunder_supported>>
    THEN [ret |-> cl.partition_cnt, cl |-> cl]
    ELSE LET cnt == cl.partition_cnt + 1
         IN [ret |-> cnt,
             cl |-> [cl EXCEPT !.prev_value = <<is_thunder_supported>>,
                               !.partition_cnt = cnt,
                               !.supported_partitions =
                                   IF is_thunder_supported THEN {cnt} ELSE @]]

\* lines 125-134: the partition id returned, and the closure after the call
Assign(cl, is_thunder_supported) ==
    IF cl.prev_value = <<is_thunder_supported>>
    THEN [ret |-> cl.partition_cnt, cl |-> cl]
    ELSE LET cnt == cl.partition_cnt + 1
         IN [ret |-> cnt,
             cl |-> [cl EXCEPT !.prev_value = <<is_thunder_supported>>,
                               !.partition_cnt = cnt,
                               !.supported_partitions =
                                   IF is_thunder_supported THEN @ \cup {cnt} ELSE @]]

\* callback with the assertion of lines 102-106 left out: a structural node is
\* given the current partition
callback_no_assert(cl, g, i) ==
    IF gm[i].op \in StructuralOps
    THEN [raised |-> FALSE, ret |-> cl.partition_cnt, cl |-> cl]
    ELSE LET c == Classify(cl, g, i)
             a == Assign(c.cl, c.is_thunder_supported)
         IN [raised |-> FALSE, ret |-> a.ret, cl |-> a.cl]

\* callback(node): raised is TRUE when the assertion of lines 102-106 fails
callback(cl, g, i) ==
    IF gm[i].op \in StructuralOps
    THEN [raised |-> TRUE, ret |-> 0, cl |-> cl]
    ELSE LET c == Classify(cl, g, i)
             a == Assign(c.cl, c.is_thunder_supported)
         IN [raised |-> FALSE, ret |-> a.ret, cl |-> a.cl]

\* the closure a pass starts from taken from the pass before it
LeftoverClosure == Closure

InitClosure ==
    [prev_value |-> <<>>, partition_cnt |-> 0, supported_partitions |-> {},
     split_reasons |-> <<>>, has_thunder_tracable_checkpoint |-> FALSE]

----------------------------------------------------------------------------
(* Names, the split graph and the collaborators *)

\* ---- names: "submod_3" is <<"submod", "_", "3">> ----

Numerals == <<"0", "1", "2", "3", "4", "5", "6", "7", "8", "9">>

\* str(n), for the partition ids and node places of the graphs modelled
str(n) == Numerals[n + 1]

startswith(name, prefix) == Len(name) >= 1 /\ name[1] = prefix

\* name.replace(old, new) for a one-word old; new is a word
replace(name, old, new) == [k \in 1..Len(name) |-> IF name[k] = old THEN new ELSE name[k]]

\* name.replace("submod_", "")
strip_submod_(name) ==
    IF Len(name) >= 2 /\ name[1] = "submod" /\ name[2] = "_" THEN SubSeq(name, 3, Len(name))
    ELSE name

\* int(s): defined on a string that is one numeral
int(s) == CHOOSE n \in 0..9 : Len(s) = 1 /\ str(n) = s[1]

\* ---- the split graph ----

Submodule(g, n) == [kind |-> "GraphModule", owner |-> g, id |-> n]

PartitionIds(po) == {p[2] : p \in po}

\* the gm nodes split_module put into partition n, in their original order
RECURSIVE BodyFrom(_, _, _)
BodyFrom(po, n, i) ==
    IF i > Len(gm) THEN <<>>
    ELSE (IF <<i, n>> \in po THEN <<[name |-> i, target |-> gm[i].target]>> ELSE <<>>)
         \o BodyFrom(po, n, i + 1)

RECURSIVE Placeholders(_)
Placeholders(i) ==
    IF i > Len(gm) THEN <<>>
    ELSE (IF gm[i].op = "placeholder"
          THEN <<[name |-> <<"arg", "_", str(i)>>, op |-> "placeholder", target |-> <<"arg", "_", str(i)>>]>>
          ELSE <<>>) \o Placeholders(i + 1)

RECURSIVE SubmodCalls(_, _)
SubmodCalls(ids, n) ==
    IF ids = {} THEN <<>>
    ELSE IF n \in ids
         THEN <<[name |-> <<"submod", "_", str(n)>>, op |-> "call_module",
                 target |-> <<"submod", "_", str(n)>>]>> \o SubmodCalls(ids \ {n}, n + 1)
         ELSE SubmodCalls(ids, n + 1)

\* split_module(gm, split_callback=callback, keep_original_order=True,
\* keep_original_node_name=True): one submodule submod_<id> per partition id, called
\* in the parent graph in the order of the ids, between the placeholders and the output
split_module(g, po) ==
    LET ids == PartitionIds(po)
        nodes == Placeholders(1) \o SubmodCalls(ids, 0)
                 \o <<[name |-> <<"output">>, op |-> "output", target |-> <<"output">>]>>
    IN [nodes |-> nodes,
        attrs |-> {<<<<"submod", "_", str(n)>>, Submodule(g, n)>> : n \in ids},
        bodies |-> {<<n, BodyFrom(po, n, 1)>> : n \in ids},
        code |-> [k \in 1..Len(nodes) |-> nodes[k].name]]

NoGraph == [nodes |-> <<>>, attrs |-> {}, bodies |-> {}, code |-> <<>>]

\* copy.deepcopy(split_gm): the same structure, every submodule a new object
deepcopy(G, g) ==
    [G EXCEPT !.attrs = {<<a[1], IF a[2].kind = "GraphModule" THEN Submodule(g, a[2].id)
                                 ELSE a[2]>> : a \in @}]

getattr(G, name) == (CHOOSE a \in G.attrs : a[1] = name)[2]

hasattr(G, name) == \E a \in G.attrs : a[1] = name

\* every submod node taken for a thunder partition
is_submod_partition(node) == startswith(node.name, "submod")

is_thunder_supported_partition(node) ==
    /\ startswith(node.name, "submod")
    /\ int(strip_submod_(node.name)) \in supported_partitions

\* checkpoint_converter(split_gm, graph_module): the targets of the checkpoint nodes
\* of graph_module become thunder's symbol
checkpoint_converter(G, m) ==
    [G EXCEPT !.bodies =
        {<<b[1], IF b[1] = m.id
                 THEN [k \in 1..Len(b[2]) |->
                          IF b[2][k].target = tag_activation_checkpoint
                          THEN [b[2][k] EXCEPT !.target = "thunder.checkpoint"]
                          ELSE b[2][k]]
                 ELSE b[2]>> : b \in @}]

\* update_node_and_submodule(graph_module, node, new_name, new_callable): the node at
\* place k takes the new name as name and target, the attribute under the old target
\* goes, the new callable is set under the new name
update_node_and_submodule(G, k, new_name, new_callable) ==
    [G EXCEPT !.nodes[k].name = new_name,
              !.nodes[k].target = new_name,
              !.attrs = {a \in @ : a[1] # G.nodes[k].target} \cup {<<new_name, new_callable>>}]

\* recompile_graph(gm): the graph's code is generated from its nodes
recompile_graph(G) == [G EXCEPT !.code = [k \in 1..Len(G.nodes) |-> G.nodes[k].name]]

\* what a backend returns for a module
jit(backend, m) == [kind |-> "callable", owner |-> m.owner, id |-> m.id, backend |-> backend]

CompiledFunction(jit_fn, compiler) == [compiled_fn |-> jit_fn, compiler |-> compiler]

\* d[key] = value
setitem(d, key, value) == {e \in d : e[1] # key} \cup {<<key, value>>}

\* the thunder name left as it is
thunder_name_unchanged(name) == name

\* line 162: node.name.replace("submod", "thunder")
thunder_name(name) == replace(name, "submod", "thunder")

\* the inductor name left as it is
inductor_name_unchanged(name) == name

\* line 174: node.name.replace("submod", "inductor")
inductor_name(name) == replace(name, "submod", "inductor")

\* the exception of a backend swallowed: the loop goes on
after_backend_swallowed(outcome) == "assemble"

\* lines 160, 172: a backend that raises ends _splitter, nothing catches it
after_backend(outcome) == IF outcome = "raise" THEN "raised" ELSE "assemble"

\* the callable put at the front of the list
record_thunder_fn_front(fns, jit_fn) == <<jit_fn>> \o fns

\* line 163: thunder_compiled_fns.append(jit_fn)
record_thunder_fn(fns, jit_fn) == Append(fns, jit_fn)

Call(fn, owner, id, outcome) == [fn |-> fn, owner |-> owner, id |-> id, outcome |-> outcome]

----------------------------------------------------------------------------
(* The pass *)

Init ==
    /\ gm \in Graphs
    /\ pc = "split"
    /\ idx = 1
    /\ prev_value = <<>>
    /\ partition_cnt = 0
    /\ supported_partitions = {}
    /\ split_reasons = <<>>
    /\ has_thunder_tracable_checkpoint = FALSE
    /\ partition_of = {}
    /\ graphs = [orig |-> NoGraph, copy |-> NoGraph]
    /\ split_gm = "none"
    /\ origin_split_gm = "none"
    /\ pos = 0
    /\ thunder_compiled_fns = <<>>
    /\ submodule_to_compiled_fns = {}
    /\ calls = <<>>
    /\ result = <<>>
    /\ run2 = <<>>

SetClosure(cl) ==
    /\ prev_value' = cl.prev_value
    /\ partition_cnt' = cl.partition_cnt
    /\ supported_partitions' = cl.supported_partitions
    /\ split_reasons' = cl.split_reasons
    /\ has_thunder_tracable_checkpoint' = cl.has_thunder_tracable_checkpoint

\* split_module visits the next node of gm and asks the callback where it goes
SplitModuleStep ==
    /\ pc = "split"
    /\ idx <= Len(gm)
    /\ IF gm[idx].op \in SplitModuleSkips
       THEN /\ idx' = idx + 1
            /\ UNCHANGED <<pc, prev_value, partition_cnt, supported_partitions, split_reasons,
                           has_thunder_tracable_checkpoint, partition_of>>
       ELSE LET r == callback(Closure, 1, idx)
            IN IF r.raised
               THEN /\ pc' = "raised"
                    /\ UNCHANGED <<idx, prev_value, partition_cnt, supported_partitions,
                                   split_reasons, has_thunder_tracable_checkpoint, partition_of>>
               ELSE /\ SetClosure(r.cl)
                    /\ partition_of' = partition_of \cup {<<idx, r.ret>>}
                    /\ idx' = idx + 1
                    /\ pc' = pc
    /\ UNCHANGED <<gm, graphs, split_gm, origin_split_gm, pos, thunder_compiled_fns,
                   submodule_to_compiled_fns, calls, result, run2>>

\* line 137: split_module has visited every node and returns the split graph
SplitModuleReturn ==
    /\ pc = "split"
    /\ idx > Len(gm)
    /\ graphs' = [graphs EXCEPT !.orig = split_module("orig", partition_of)]
    /\ split_gm' = "orig"
    /\ pc' = "origin"
    /\ UNCHANGED <<gm, idx, prev_value, partition_cnt, supported_partitions, split_reasons,
                   has_thunder_tracable_checkpoint, partition_of, origin_split_gm, pos,
                   thunder_compiled_fns, submodule_to_compiled_fns, calls, result, run2>>

\* the split graph copied in every pass
needs_copy_always == TRUE

\* line 150: if has_thunder_tracable_checkpoint
needs_copy == has_thunder_tracable_checkpoint

\* lines 145-153
RecordOrigin ==
    /\ pc = "origin"
    /\ origin_split_gm' = split_gm
    /\ IF needs_copy
       THEN /\ graphs' = [graphs EXCEPT !.copy = deepcopy(graphs[split_gm], "copy")]
            /\ split_gm' = "copy"
            /\ calls' = Append(calls, Call("deepcopy", split_gm, 0, "ok"))
       ELSE UNCHANGED <<graphs, split_gm, calls>>
    /\ pos' = 1
    /\ pc' = "assemble"
    /\ UNCHANGED <<gm, idx, prev_value, partition_cnt, supported_partitions, split_reasons,
                   has_thunder_tracable_checkpoint, partition_of,
                   thunder_compiled_fns, submodule_to_compiled_fns, result, run2>>

\* the key always the module that was compiled
bookkeeping_key_compiled(name, graph_module, brand) == graph_module

\* lines 164-169, 175-180: the key under which the CompiledFunction is recorded;
\* name is the node's name after the renaming
bookkeeping_key(name, graph_module, brand) ==
    IF has_thunder_tracable_checkpoint
    THEN getattr(graphs[origin_split_gm], replace(name, brand, "submod"))
    ELSE graph_module

AssembleFrame ==
    UNCHANGED <<gm, idx, prev_value, partition_cnt, supported_partitions, split_reasons,
                has_thunder_tracable_checkpoint, partition_of, split_gm, origin_split_gm,
                result, run2>>

\* lines 156-169: a thunder partition; thunder_jit returns or raises
AssembleThunder ==
    /\ pc = "assemble"
    /\ pos <= Len(graphs[split_gm].nodes)
    /\ LET G == graphs[split_gm]
           node == G.nodes[pos]
       IN /\ is_thunder_supported_partition(node)
          /\ LET graph_module == getattr(G, node.name)
                 G1 == checkpoint_converter(G, graph_module)
                 jit_fn == jit("thunder", graph_module)
                 G2 == update_node_and_submodule(G1, pos, thunder_name(node.name), jit_fn)
                 key == bookkeeping_key(G2.nodes[pos].name, graph_module, "thunder")
                 conv == Call("checkpoint_converter", graph_module.owner, graph_module.id, "ok")
             IN \E outcome \in {"ok", "raise"} :
                 /\ calls' = calls \o <<conv, Call("thunder_jit", graph_module.owner,
                                                   graph_module.id, outcome)>>
                               \o (IF outcome = "ok"
                                   THEN <<Call("update_node_and_submodule",
                                               graph_module.owner, graph_module.id, "ok")>>
                                   ELSE <<>>)
                 /\ pc' = after_backend(outcome)
                 /\ IF outcome = "raise"
                    THEN /\ graphs' = [graphs EXCEPT ![split_gm] = G1]
                         /\ UNCHANGED <<pos, thunder_compiled_fns, submodule_to_compiled_fns>>
                    ELSE /\ graphs' = [graphs EXCEPT ![split_gm] = G2]
                         /\ thunder_compiled_fns' =
                                record_thunder_fn(thunder_compiled_fns, jit_fn)
                         /\ submodule_to_compiled_fns' =
                                setitem(submodule_to_compiled_fns, key,
                                        CompiledFunction(jit_fn, "THUNDER"))
                         /\ pos' = pos + 1
    /\ AssembleFrame

\* lines 170-180: an inductor partition; torch_inductor returns or raises
AssembleInductor ==
    /\ pc = "assemble"
    /\ pos <= Len(graphs[split_gm].nodes)
    /\ LET G == graphs[split_gm]
           node == G.nodes[pos]
       IN /\ ~is_thunder_supported_partition(node)
          /\ startswith(node.name, "submod")
          /\ LET graph_module == getattr(G, node.name)
                 jit_fn == jit("inductor", graph_module)
                 G2 == update_node_and_submodule(G, pos, inductor_name(node.name), jit_fn)
                 key == bookkeeping_key(G2.nodes[pos].name, graph_module, "inductor")
             IN \E outcome \in {"ok", "raise"} :
                 /\ calls' = calls \o <<Call("torch_inductor", graph_module.owner,
                                              graph_module.id, outcome)>>
                               \o (IF outcome = "ok"
                                   THEN <<Call("update_node_and_submodule",
                                               graph_module.owner, graph_module.id, "ok")>>
                                   ELSE <<>>)
                 /\ pc' = after_backend(outcome)
                 /\ IF outcome = "raise"
                    THEN UNCHANGED <<graphs, pos, submodule_to_compiled_fns>>
                    ELSE /\ graphs' = [graphs EXCEPT ![split_gm] = G2]
                         /\ submodule_to_compiled_fns' =
                                setitem(submodule_to_compiled_fns, key,
                                        CompiledFunction(jit_fn, "TORCH_INDUCTOR"))
                         /\ pos' = pos + 1
    /\ UNCHANGED thunder_compiled_fns
    /\ AssembleFrame

\* lines 181-183: glue code
AssembleGlue ==
    /\ pc = "assemble"
    /\ pos <= Len(graphs[split_gm].nodes)
    /\ LET node == graphs[split_gm].nodes[pos]
       IN /\ ~is_thunder_supported_partition(node)
          /\ ~startswith(node.name, "submod")
    /\ pos' = pos + 1
    /\ UNCHANGED <<pc, graphs, thunder_compiled_fns, submodule_to_compiled_fns, calls>>
    /\ AssembleFrame

\* the loop left after its first node
loop_done_early == pos > 1

\* line 155: the for loop has visited every node of split_gm.graph.nodes
loop_done == pos > Len(graphs[split_gm].nodes)

\* line 186
Recompile ==
    /\ pc = "assemble"
    /\ loop_done
    /\ graphs' = [graphs EXCEPT ![split_gm] = recompile_graph(@)]
    /\ calls' = Append(calls, Call("recompile_graph", split_gm, 0, "ok"))
    /\ pc' = "return"
    /\ UNCHANGED <<pos, thunder_compiled_fns, submodule_to_compiled_fns>>
    /\ AssembleFrame

\* lines 188-195: the fields of SubgraphInfo are references to the objects
SubgraphInfo(a, b, c, d, e, f) ==
    [original_graph_module |-> a, original_split_graph_module |-> b,
     split_graph_module |-> c, thunder_compiled_fns |-> d,
     submodule_to_compiled_functions |-> e, split_reasons |-> f]

Return ==
    /\ pc = "return"
    /\ result' = <<[split_gm |-> split_gm,
                    info |-> SubgraphInfo("gm", origin_split_gm, split_gm, thunder_compiled_fns,
                                          submodule_to_compiled_fns, split_reasons)]>>
    /\ pc' = "done"
    /\ UNCHANGED <<gm, idx, prev_value, partition_cnt, supported_partitions, split_reasons,
                   has_thunder_tracable_checkpoint, partition_of, graphs, split_gm,
                   origin_split_gm, pos, thunder_compiled_fns, submodule_to_compiled_fns,
                   calls, run2>>

Next ==
    \/ SplitModuleStep
    \/ SplitModuleReturn
    \/ RecordOrigin
    \/ AssembleThunder
    \/ AssembleInductor
    \/ AssembleGlue
    \/ Recompile
    \/ Return


Spec == Init /\ [][Next]_vars

\* The graph of the end-to-end scenario: call nodes A, B (supported), C (unsupported:
\* rejected by the predicate, or in a context region), D (supported), with or
\* without a placeholder before them.
SupportedNodes == {n \in CallNodes : ~n.ctx /\ n.sup}

UnsupportedNodes == {n \in CallNodes : n.ctx \/ ~n.sup}

ScenarioGraphs ==
    {pre \o <<a, b, c, d, OutputNode>> :
        pre \in {<<>>, <<[op |-> "placeholder", target |-> "arg", ctx |-> FALSE,
                         sup |-> FALSE, reason |-> None]>>},
        a \in SupportedNodes, b \in SupportedNodes, c \in UnsupportedNodes,
        d \in SupportedNodes}

InitScenario ==
    /\ gm \in ScenarioGraphs
    /\ pc = "split"
    /\ idx = 1
    /\ prev_value = <<>>
    /\ partition_cnt = 0
    /\ supported_partitions = {}
    /\ split_reasons = <<>>
    /\ has_thunder_tracable_checkpoint = FALSE
    /\ partition_of = {}
    /\ graphs = [orig |-> NoGraph, copy |-> NoGraph]
    /\ split_gm = "none"
    /\ origin_split_gm = "none"
    /\ pos = 0
    /\ thunder_compiled_fns = <<>>
    /\ submodule_to_compiled_fns = {}
    /\ calls = <<>>
    /\ result = <<>>
    /\ run2 = <<>>

SpecScenario == InitScenario /\ [][Next]_vars

\* A second run of the partitioning, on a graph of the same structure and
\* classifications whose nodes are other objects (graph 2), once the first run's
\* split is through.
RerunFrame ==
    UNCHANGED <<gm, pc, idx, prev_value, partition_cnt, supported_partitions, split_reasons,
                has_thunder_tracable_checkpoint, partition_of, graphs, split_gm,
                origin_split_gm, pos, thunder_compiled_fns, submodule_to_compiled_fns,
                calls, result>>

\* lines 91-97 of the second run
RerunStart ==
    /\ pc = "split"
    /\ idx > Len(gm)
    /\ run2 = <<>>
    /\ run2' = <<[idx |-> 1, cl |-> InitClosure, partition_of |-> {}, raised |-> FALSE]>>
    /\ RerunFrame

\* split_module of the second run visits its next node
RerunStep ==
    /\ run2 # <<>>
    /\ ~run2[1].raised
    /\ run2[1].idx <= Len(gm)
    /\ LET i == run2[1].idx
       IN IF gm[i].op \in SplitModuleSkips
          THEN run2' = <<[run2[1] EXCEPT !.idx = i + 1]>>
          ELSE LET r == callback(run2[1].cl, 2, i)
               IN IF r.raised
                  THEN run2' = <<[run2[1] EXCEPT !.raised = TRUE]>>
                  ELSE run2' = <<[idx |-> i + 1, cl |-> r.cl,
                                  partition_of |-> run2[1].partition_of \cup {<<i, r.ret>>},
                                  raised |-> FALSE]>>
    /\ RerunFrame

NextRerun ==
    \/ SplitModuleStep
    \/ RerunStart
    \/ RerunStep

SpecRerun == Init /\ [][NextRerun]_vars

----------------------------------------------------------------------------
(* Properties *)

CallType(i) == gm[i].op \in {"call_function", "call_method", "call_module"}

\* the call-type nodes the callback has been applied to
Visited == {i \in 1..Len(gm) : CallType(i) /\ i < idx}

IdsOf(i) == {p[2] : p \in {q \in partition_of : q[1] = i}}

SplitOver == pc # "split"

\* C1 (contiguity): whenever two nodes have received the same partition id, every
\* call-type node between them in program order has received that id, and no other.
C1_Contiguity ==
    \A p \in partition_of : \A q \in partition_of :
        (p[2] = q[2] /\ p[1] < q[1]) =>
            \A k \in (p[1] + 1)..(q[1] - 1) : CallType(k) => IdsOf(k) = {p[2]}

\* a finished split in which a call node lies between two nodes of the same partition
C1_Witness ==
    /\ SplitOver
    /\ \E p \in partition_of : \E q \in partition_of :
          /\ p[2] = q[2]
          /\ q[1] = p[1] + 2
          /\ CallType(p[1] + 1)

\* C2 (full coverage): once split_module is through, every call-type node has exactly
\* one partition id and lies in exactly one submodule; at no time has a placeholder,
\* get_attr or output node a partition id, or any node two.
C2_FullCoverage ==
    /\ \A i \in 1..Len(gm) :
          /\ ~CallType(i) => IdsOf(i) = {}
          /\ Cardinality(IdsOf(i)) <= 1
          /\ (CallType(i) /\ i < idx /\ pc = "split") => Cardinality(IdsOf(i)) = 1
    /\ \A p \in partition_of : p[1] \in 1..Len(gm)
    /\ SplitOver =>
          \A i \in 1..Len(gm) : CallType(i) => Cardinality(IdsOf(i)) = 1
    /\ pc \notin {"split", "raised"} =>
          \A i \in 1..Len(gm) :
              LET holders == {b \in graphs.orig.bodies :
                                 \E k \in 1..Len(b[2]) : b[2][k].name = i}
              IN IF CallType(i) THEN Cardinality(holders) = 1 /\ {b[1] : b \in holders} = IdsOf(i)
                 ELSE holders = {}

\* a finished split of a graph with call nodes among placeholders and get_attr nodes
C2_Witness ==
    /\ pc = "origin"
    /\ \E i \in 1..Len(gm) : gm[i].op = "placeholder"
    /\ \E i \in 1..Len(gm) : gm[i].op = "get_attr"
    /\ \E i \in 1..Len(gm) : CallType(i)

InContext(i) == NodeOf(1, i) \in get_nodes_in_unsupported_ctx_regions(1)

ContextReasons(i) ==
    {k \in 1..Len(split_reasons) :
        /\ split_reasons[k].name = i
        /\ split_reasons[k].reason_type = UNSUPPORTED_NODE
        /\ split_reasons[k].about = "unsupported context"}

ReasonsFor(i) == {k \in 1..Len(split_reasons) : split_reasons[k].name = i}

\* C3 (context override): a node in the unsupported-context set that the callback
\* classifies is classified unsupported whatever the predicate says of it, its
\* partition id is not in supported_partitions, and exactly one reason is appended
\* for it: an UNSUPPORTED_NODE reason citing the context.
C3_ContextOverride ==
    \A i \in 1..Len(gm) :
        (CallType(i) /\ InContext(i)) =>
            /\ ~Classify(Closure, 1, i).is_thunder_supported
            /\ i \in Visited =>
                  /\ IdsOf(i) \cap supported_partitions = {}
                  /\ IdsOf(i) # {}
                  /\ Cardinality(ContextReasons(i)) = 1
                  /\ ReasonsFor(i) = ContextReasons(i)

\* a node the predicate supports, in a context region, behind a supported node
C3_Witness ==
    /\ SplitOver
    /\ \E i \in Visited :
          /\ InContext(i) /\ gm[i].sup
          /\ \E j \in Visited : j < i /\ ~InContext(j) /\ gm[j].sup

\* the places of the call-type nodes, in program order
RECURSIVE CallPlacesFrom(_)
CallPlacesFrom(i) ==
    IF i > Len(gm) THEN <<>>
    ELSE (IF CallType(i) THEN <<i>> ELSE <<>>) \o CallPlacesFrom(i + 1)

CallPlaces == CallPlacesFrom(1)

BodyOf(G, n) == (CHOOSE b \in G.bodies : b[1] = n)[2]

NamesIn(body) == [k \in 1..Len(body) |-> body[k].name]

\* the places where the partition id changes from one call node to the next
RegionFlips ==
    {k \in 1..(Len(CallPlaces) - 1) : IdsOf(CallPlaces[k]) # IdsOf(CallPlaces[k + 1])}

\* C4 (scenario): for call nodes A, B supported, C unsupported, D supported the split
\* yields the partitions 1: [A, B], 2: [C], 3: [D], supported_partitions = {1, 3},
\* and the region changes twice (B to C, C to D), partition_cnt ending at 3.
C4_Scenario ==
    SplitOver =>
        LET c == CallPlaces
        IN /\ Len(c) = 4
           /\ partition_of = {<<c[1], 1>>, <<c[2], 1>>, <<c[3], 2>>, <<c[4], 3>>}
           /\ supported_partitions = {1, 3}
           /\ partition_cnt = 3
           /\ Cardinality(RegionFlips) = 2
           /\ {b[1] : b \in graphs.orig.bodies} = {1, 2, 3}
           /\ NamesIn(BodyOf(graphs.orig, 1)) = <<c[1], c[2]>>
           /\ NamesIn(BodyOf(graphs.orig, 2)) = <<c[3]>>
           /\ NamesIn(BodyOf(graphs.orig, 3)) = <<c[4]>>

\* the scenario's pass returned, C being a supported operator in a context region
C4_Witness ==
    /\ pc = "done"
    /\ Len(CallPlaces) = 4
    /\ gm[CallPlaces[3]].ctx /\ gm[CallPlaces[3]].sup

ClassifiedSupported(i) == Classify(InitClosure, 1, i).is_thunder_supported

AllSupported == \A i \in 1..Len(gm) : CallType(i) => ClassifiedSupported(i)

UnsupportedNodeReasons ==
    {k \in 1..Len(split_reasons) : split_reasons[k].reason_type = UNSUPPORTED_NODE}

OnePartitionAllSupported ==
    /\ PartitionIds(partition_of) = {1}
    /\ partition_cnt = 1
    /\ Cardinality(graphs.orig.bodies) = 1
    /\ supported_partitions = {1}
    /\ UnsupportedNodeReasons = {}

CompileCalls == {k \in 1..Len(calls) : calls[k].fn \in {"thunder_jit", "torch_inductor"}}

Keys == {e[1] : e \in submodule_to_compiled_fns}

SubmodulesOf(G) == {a[2] : a \in {x \in G.attrs : x[2].kind = "GraphModule"}}

\* C6 (checkpoint bookkeeping): when a supported checkpoint node made _splitter copy
\* the split graph, every key of submodule_to_compiled_fns is a submodule of the
\* graph that was copied and none is a submodule of the copy, while every call of a
\* backend got a submodule of the copy.
C6_CheckpointBookkeeping ==
    (has_thunder_tracable_checkpoint /\ pc \in {"assemble", "return", "done", "raised"}) =>
        /\ split_gm = "copy" /\ origin_split_gm = "orig"
        /\ \A key \in Keys :
              /\ key \in SubmodulesOf(graphs.orig)
              /\ key.owner = "orig"
              /\ key = getattr(graphs.orig, <<"submod", "_", str(key.id)>>)
        /\ \A k \in CompileCalls : calls[k].owner = "copy"
        /\ Cardinality(Keys) = Cardinality(CompileCalls \cap {k \in 1..Len(calls) :
                                                                calls[k].outcome = "ok"})

\* a pass with a supported checkpoint node returned, a thunder and an inductor
\* partition recorded
C6_Witness ==
    /\ pc = "done"
    /\ has_thunder_tracable_checkpoint
    /\ \E e \in submodule_to_compiled_fns : e[2].compiler = "THUNDER"
    /\ \E e \in submodule_to_compiled_fns : e[2].compiler = "TORCH_INDUCTOR"

CompileCallsOf(n) == {k \in CompileCalls : calls[k].id = n}

\* C7 (one backend per partition): the thunder compiler is only ever called on a
\* partition in supported_partitions and the inductor one only on a partition
\* outside it; when the pass returns, each partition 1..partition_cnt has been
\* compiled by exactly one call and has exactly one entry in
\* submodule_to_compiled_fns, tagged THUNDER iff its id is in supported_partitions
\* and TORCH_INDUCTOR otherwise, holding the callable that call returned.
C7_OneBackendPerPartition ==
    /\ \A k \in CompileCalls :
          /\ calls[k].fn = "thunder_jit" => calls[k].id \in supported_partitions
          /\ calls[k].fn = "torch_inductor" => calls[k].id \notin supported_partitions
          /\ Cardinality(CompileCallsOf(calls[k].id)) = 1
    /\ pc = "done" =>
          /\ {key.id : key \in Keys} = 1..partition_cnt
          /\ Cardinality(submodule_to_compiled_fns) = partition_cnt
          /\ \A n \in 1..partition_cnt : Cardinality(CompileCallsOf(n)) = 1
          /\ \A e \in submodule_to_compiled_fns :
                /\ e[2].compiler = (IF e[1].id \in supported_partitions
                                    THEN "THUNDER" ELSE "TORCH_INDUCTOR")
                /\ e[2].compiled_fn.backend = (IF e[1].id \in supported_partitions
                                               THEN "thunder" ELSE "inductor")
                /\ e[2].compiled_fn.id = e[1].id

\* a pass over three partitions returned
C7_Witness ==
    /\ pc = "done"
    /\ partition_cnt = 3
    /\ supported_partitions = {1, 3}

RerunOver == run2 # <<>> /\ run2[1].idx > Len(gm)

SubmoduleCalls(G) == {k \in 1..Len(G.nodes) : G.nodes[k].op = "call_module"}

\* the split graph as split_module left it
PreRewrite(G) ==
    /\ \A k \in SubmoduleCalls(G) :
          /\ startswith(G.nodes[k].name, "submod")
          /\ hasattr(G, G.nodes[k].name)
          /\ getattr(G, G.nodes[k].name).kind = "GraphModule"
    /\ \A b \in G.bodies : \A k \in 1..Len(b[2]) : b[2][k].target # "thunder.checkpoint"

\* the split graph compiled, renamed, rewired and recompiled
PostRewire(G) ==
    /\ \A k \in SubmoduleCalls(G) :
          /\ startswith(G.nodes[k].name, "thunder") \/ startswith(G.nodes[k].name, "inductor")
          /\ G.nodes[k].target = G.nodes[k].name
          /\ hasattr(G, G.nodes[k].name)
          /\ getattr(G, G.nodes[k].name).kind = "callable"
    /\ G.code = [k \in 1..Len(G.nodes) |-> G.nodes[k].name]

\* C9 as stated: the SubgraphInfo returned holds an intermediate split graph in its
\* pre-rewrite state and a final split graph that is compiled and rewired, for
\* every input graph, with or without duplication.
C9_SubgraphInfo_AsStated ==
    pc = "done" =>
        /\ PreRewrite(graphs[result[1].info.original_split_graph_module])
        /\ PostRewire(graphs[result[1].info.split_graph_module])

\* C9 (SubgraphInfo's graphs), amended: the final split graph is compiled and
\* rewired for every input graph; the intermediate split graph is in its
\* pre-rewrite state when the split graph was duplicated; when it was not, the
\* intermediate split graph is the very object that is the final split graph, and
\* is pre-rewrite only if the graph has no partition.
C9_SubgraphInfo ==
    pc = "done" =>
        LET info == result[1].info
        IN /\ result[1].split_gm = info.split_graph_module
           /\ PostRewire(graphs[info.split_graph_module])
           /\ SubmoduleCalls(graphs[info.split_graph_module]) # {} \/ partition_cnt = 0
           /\ IF has_thunder_tracable_checkpoint
              THEN /\ info.original_split_graph_module # info.split_graph_module
                   /\ PreRewrite(graphs[info.original_split_graph_module])
              ELSE /\ info.original_split_graph_module = info.split_graph_module
                   /\ PreRewrite(graphs[info.original_split_graph_module]) <=> partition_cnt = 0

\* a pass that duplicated the split graph returned: two partitions, one of each backend
C9_Witness ==
    /\ pc = "done"
    /\ has_thunder_tracable_checkpoint
    /\ partition_cnt = 2
    /\ PreRewrite(graphs[result[1].info.original_split_graph_module])

\* C10 (backend compile failure): a backend call that raises is the last call
\* _splitter makes: the pass has ended with the exception, nothing is returned, no
\* partition is compiled after it and the parent graph is not recompiled.
C10_CompileFailure ==
    /\ \A k \in CompileCalls :
          calls[k].outcome = "raise" =>
              /\ k = Len(calls)
              /\ pc = "raised"
              /\ result = <<>>
              /\ \A j \in 1..Len(calls) : calls[j].fn # "recompile_graph"
              /\ graphs[split_gm].code # <<>>
              /\ \A j \in 1..Len(graphs[split_gm].code) :
                    ~startswith(graphs[split_gm].code[j], "thunder")
                    /\ ~startswith(graphs[split_gm].code[j], "inductor")
    /\ pc = "raised" => result = <<>> /\ calls # <<>> /\ calls[Len(calls)].outcome = "raise"
    /\ result # <<>> => \A k \in CompileCalls : calls[k].outcome = "ok"

\* the second partition's backend raised after the first partition was compiled
C10_Witness ==
    /\ pc = "raised"
    /\ Len(calls) >= 2
    /\ calls[Len(calls)].outcome = "raise"
    /\ calls[Len(calls)].id = 2
    /\ partition_cnt = 3

CallsOf(fn) == {k \in 1..Len(calls) : calls[k].fn = fn}

\* C11 (single recompile): in a pass that gets through, recompile_graph is called
\* exactly once, on the final split graph, as the last call of all: every backend
\* call and every renaming, one per partition, comes before it and none after it;
\* at no time is a recompile followed by a backend call or a renaming.
C11_SingleRecompile ==
    /\ \A k \in CallsOf("recompile_graph") :
          /\ k = Len(calls)
          /\ calls[k].owner = split_gm
          /\ pc \in {"return", "done"}
    /\ pc \in {"return", "done"} =>
          /\ Cardinality(CallsOf("recompile_graph")) = 1
          /\ Cardinality(CallsOf("update_node_and_submodule")) = partition_cnt
          /\ Cardinality(CompileCalls) = partition_cnt
          /\ graphs[split_gm].code =
                [k \in 1..Len(graphs[split_gm].nodes) |-> graphs[split_gm].nodes[k].name]
    /\ pc = "assemble" =>
          /\ CallsOf("recompile_graph") = {}
          /\ \A k \in 1..Len(graphs[split_gm].code) :
                ~startswith(graphs[split_gm].code[k], "thunder")
                /\ ~startswith(graphs[split_gm].code[k], "inductor")

\* a pass over three partitions recompiled after its third renaming
C11_Witness ==
    /\ pc = "return"
    /\ Cardinality(CallsOf("update_node_and_submodule")) = 3
    /\ calls[Len(calls)].fn = "recompile_graph"
    /\ calls[Len(calls) - 1].fn = "update_node_and_submodule"

----------------------------------------------------------------------------
(* The callback called on every node of gm, structural ones included: a caller
   that does not keep split_module's promise to pass call nodes only *)

CallbackStep ==
    /\ pc = "split"
    /\ idx <= Len(gm)
    /\ LET r == callback(Closure, 1, idx)
       IN IF r.raised
          THEN /\ pc' = "raised"
               /\ UNCHANGED <<idx, prev_value, partition_cnt, supported_partitions,
                              split_reasons, has_thunder_tracable_checkpoint, partition_of>>
          ELSE /\ SetClosure(r.cl)
               /\ partition_of' = partition_of \cup {<<idx, r.ret>>}
               /\ idx' = idx + 1
               /\ pc' = pc
    /\ UNCHANGED <<gm, graphs, split_gm, origin_split_gm, pos, thunder_compiled_fns,
                   submodule_to_compiled_fns, calls, result, run2>>

NextCallback == CallbackStep

SpecCallback == Init /\ [][NextCallback]_vars

\* C12 (structural-node guard): a call of the callback on a placeholder, get_attr or
\* output node raises, and leaves prev_value, partition_cnt, supported_partitions,
\* split_reasons and the checkpoint flag as they were and gives the node no partition
\* id; a call on any other node does not raise and gives the node an id.
C12_StructuralGuard ==
    [][ (pc = "split" /\ idx <= Len(gm)) =>
          IF gm[idx].op \in {"placeholder", "get_attr", "output"}
          THEN /\ pc' = "raised"
               /\ UNCHANGED <<prev_value, partition_cnt, supported_partitions, split_reasons,
                              has_thunder_tracable_checkpoint, partition_of>>
               /\ {q \in partition_of' : q[1] = idx} = {}
          ELSE /\ pc' = "split"
               /\ Cardinality({q \in partition_of' : q[1] = idx}) = 1 ]_vars

C12_Witness ==
    /\ pc = "raised"
    /\ idx > 1
    /\ gm[idx].op = "get_attr"
    /\ partition_cnt >= 2
    /\ split_reasons # <<>>
    /\ IdsOf(idx) = {}

\* the nodes of the submodules of G whose target is thunder's checkpoint symbol
RewrittenIn(G) ==
    {<<b[1], k>> : b \in G.bodies, k \in 1..MaxBody} \cap
    {x \in PartitionIds(partition_of) \X (1..MaxBody) :
        \E b \in G.bodies : /\ b[1] = x[1]
                            /\ x[2] <= Len(b[2])
                            /\ b[2][x[2]].target = "thunder.checkpoint"}

\* the nodes of the submodules of G that are checkpoint nodes of gm
CheckpointNodesIn(G, n) ==
    {k \in 1..MaxBody :
        \E b \in G.bodies : /\ b[1] = n
                            /\ k <= Len(b[2])
                            /\ gm[b[2][k].name].target = tag_activation_checkpoint}

ConvertedPartitions == {calls[k].id : k \in CallsOf("checkpoint_converter")}

\* C13 as the spec states it: the checkpoint rewriter is called only in a pass that
\* found a supported checkpoint node.
C13_RewriterGating_AsStated ==
    \A k \in CallsOf("checkpoint_converter") : has_thunder_tracable_checkpoint

\* C13 (checkpoint rewriter gating), amended: the rewriter is called in every pass, on
\* the submodule of each thunder partition right before that partition's thunder_jit
\* call and on no other submodule; it rewrites a node only in a pass that found a
\* supported checkpoint node, and then exactly the checkpoint nodes of the partitions
\* it was called on, in the graph being compiled.
C13_RewriterGating ==
    /\ \A k \in CallsOf("checkpoint_converter") :
          /\ calls[k].owner = split_gm
          /\ calls[k].id \in supported_partitions
          /\ k < Len(calls)
          /\ calls[k + 1].fn = "thunder_jit"
          /\ calls[k + 1].id = calls[k].id
    /\ \A k \in CallsOf("thunder_jit") :
          /\ k > 1
          /\ calls[k - 1].fn = "checkpoint_converter"
          /\ calls[k - 1].id = calls[k].id
    /\ \A k \in CallsOf("torch_inductor") :
          k > 1 => calls[k - 1].fn # "checkpoint_converter"
    /\ RewrittenIn(graphs.orig) = {}
    /\ ~has_thunder_tracable_checkpoint => RewrittenIn(graphs.copy) = {}
    /\ split_gm # "none" =>
          RewrittenIn(graphs[split_gm]) =
              {x \in ConvertedPartitions \X (1..MaxBody) :
                  x[2] \in CheckpointNodesIn(graphs[split_gm], x[1])}

C13_Witness ==
    /\ pc = "done"
    /\ ~has_thunder_tracable_checkpoint
    /\ Cardinality(CallsOf("checkpoint_converter")) = 2
    /\ \E i \in Visited : gm[i].target = tag_activation_checkpoint
    /\ RewrittenIn(graphs[split_gm]) = {}

C13_WitnessRewritten ==
    /\ pc = "done"
    /\ has_thunder_tracable_checkpoint
    /\ RewrittenIn(graphs.copy) # {}

\* a checkpoint node of gm that the callback classifies as supported
SupportedCheckpointNodes ==
    {i \in 1..Len(gm) : /\ CallType(i)
                        /\ gm[i].target = tag_activation_checkpoint
                        /\ ClassifiedSupported(i)}

AfterOrigin == pc \in {"assemble", "return", "done"} \/ (pc = "raised" /\ calls # <<>>)

\* C14 (conditional duplication): the split graph is copied iff some checkpoint node
\* was classified as supported. The copy is made once, after every node has its
\* partition and before any backend call; then every rewriter, backend, renaming and
\* recompile call acts on the copy and the graph copied stays as split_module made
\* it. Without a copy all those calls act on the graph split_module made, and the
\* split graph returned is the object recorded as the intermediate split graph.
C14_ConditionalDuplication ==
    /\ CallsOf("deepcopy") \subseteq {1}
    /\ CallsOf("deepcopy") # {} => idx > Len(gm) /\ calls[1].owner = "orig"
    /\ \A k \in CompileCalls : pc # "split" /\ pc # "origin"
    /\ AfterOrigin =>
          /\ origin_split_gm = "orig"
          /\ CallsOf("deepcopy") # {} <=> SupportedCheckpointNodes # {}
          /\ IF CallsOf("deepcopy") # {}
             THEN /\ split_gm = "copy"
                  /\ \A k \in 2..Len(calls) : calls[k].owner = "copy"
                  /\ graphs.orig = split_module("orig", partition_of)
                  /\ pc = "done" => /\ result[1].split_gm = "copy"
                                    /\ result[1].info.split_graph_module = "copy"
                                    /\ result[1].info.original_split_graph_module = "orig"
             ELSE /\ split_gm = "orig"
                  /\ graphs.copy = NoGraph
                  /\ \A k \in 1..Len(calls) : calls[k].owner = "orig"
                  /\ pc = "done" =>
                        /\ result[1].split_gm = "orig"
                        /\ result[1].info.original_split_graph_module = result[1].split_gm
                        /\ result[1].info.split_graph_module = result[1].split_gm

C14_Witness ==
    /\ pc = "done"
    /\ CallsOf("deepcopy") = {1}
    /\ Cardinality(CompileCalls) = 2
    /\ Cardinality(CallsOf("update_node_and_submodule")) = 2
    /\ graphs.copy # graphs.orig

\* the call-type nodes the callback has been applied to, in the order of the graph
VisitedPlaces == SelectSeq(CallPlaces, LAMBDA i : i < idx)

NodesOfPartition(n) == {i \in Visited : IdsOf(i) = {n}}

\* C15 (maximality / flip rule): the first call node gets id 1, and each later call
\* node gets the id of the call node before it when both have the same verdict and
\* that id plus one when the verdicts differ. So the ids in use are exactly
\* 1..partition_cnt (no node has id 0, no id is without a node), two consecutive ids
\* have opposite support, and supported_partitions is the set of the ids all of whose
\* nodes are classified as supported.
C15_FlipRule ==
    /\ \A i \in Visited : Cardinality(IdsOf(i)) = 1
    /\ VisitedPlaces # <<>> => IdsOf(VisitedPlaces[1]) = {1}
    /\ \A k \in 1..(Len(VisitedPlaces) - 1) :
          LET i == VisitedPlaces[k]
              j == VisitedPlaces[k + 1]
          IN IdsOf(j) = {n + (IF ClassifiedSupported(i) = ClassifiedSupported(j) THEN 0 ELSE 1) :
                            n \in IdsOf(i)}
    /\ PartitionIds(partition_of) = 1..partition_cnt
    /\ \A n \in 1..partition_cnt : NodesOfPartition(n) # {}
    /\ \A n \in 1..(partition_cnt - 1) :
          (n \in supported_partitions) # ((n + 1) \in supported_partitions)
    /\ supported_partitions =
          {n \in 1..partition_cnt : \A i \in NodesOfPartition(n) : ClassifiedSupported(i)}
    /\ \A n \in 1..partition_cnt : n \notin supported_partitions =>
          \A i \in NodesOfPartition(n) : ~ClassifiedSupported(i)

\* unsupported, supported, supported: the first node flips to id 1, the second to 2
C15_Witness ==
    /\ SplitOver
    /\ Len(VisitedPlaces) = 3
    /\ ~ClassifiedSupported(VisitedPlaces[1])
    /\ ClassifiedSupported(VisitedPlaces[2])
    /\ ClassifiedSupported(VisitedPlaces[3])
    /\ partition_cnt = 2
    /\ supported_partitions = {2}
    /\ IdsOf(VisitedPlaces[3]) = {2}

\* the reason the pass is to record for call node i: none, or one
ExpectedReason(i) ==
    IF InContext(i)
    THEN <<[reason_type |-> UNSUPPORTED_NODE, about |-> "unsupported context",
            name |-> i, target |-> gm[i].target]>>
    ELSE IF gm[i].reason # None
         THEN <<[reason_type |-> gm[i].reason, about |-> "operator",
                 name |-> i, target |-> gm[i].target]>>
         ELSE <<>>

RECURSIVE ExpectedReasons(_)
ExpectedReasons(places) ==
    IF places = <<>> THEN <<>>
    ELSE ExpectedReason(Head(places)) \o ExpectedReasons(Tail(places))

\* C16 (SplitReason recording): every step of the pass leaves the entries of
\* split_reasons in place and at most appends after them; at every point the list is,
\* in the order of the nodes, the context reason of each context-region call node
\* visited and the predicate's reason of each other call node visited that has one,
\* supported or not; the list returned in SubgraphInfo is that list for all call nodes.
C16_SplitReasons ==
    /\ [](/\ split_reasons = ExpectedReasons(VisitedPlaces)
          /\ pc = "done" => result[1].info.split_reasons = ExpectedReasons(CallPlaces))
    /\ [][/\ Len(split_reasons) <= Len(split_reasons')
          /\ \A k \in 1..Len(split_reasons) : split_reasons'[k] = split_reasons[k]]_vars

\* a supported node with a reason, a context-region node, an unsupported node with a reason
C16_Witness ==
    /\ pc = "done"
    /\ Len(result[1].info.split_reasons) = 3
    /\ \E i, j, k \in Visited :
          /\ i < j /\ j < k
          /\ ~InContext(i) /\ gm[i].sup /\ gm[i].reason = MISSING_OP_SUPPORT
          /\ InContext(j)
          /\ ~InContext(k) /\ ~gm[k].sup /\ gm[k].reason = UNSUPPORTED_NODE
          /\ split_reasons[1].name = i /\ split_reasons[2].name = j /\ split_reasons[3].name = k

\* the split graph as split_module returned it, before assembly
BeforeAssembly == split_module("orig", partition_of)

\* the nodes of the parent graph the assembly loop has gone past
Assembled(k) == pc \in {"return", "done"} \/ (pc = "assemble" /\ k < pos)

\* the name the assembled graph is to have for the call of partition n
BackendName(n) ==
    <<IF n \in supported_partitions THEN "thunder" ELSE "inductor", "_", str(n)>>

\* C17 (renaming and glue): once the loop has passed it, the call node of partition N
\* is named thunder_N when N is in supported_partitions and inductor_N otherwise, so
\* at the end of a pass no call node keeps the name submod_N; every other node of the
\* parent graph has the name, target and place split_module gave it.
C17_RenamingAndGlue ==
    pc \in {"assemble", "return", "done"} =>
        LET G == graphs[split_gm]
            G0 == BeforeAssembly
        IN /\ Len(G.nodes) = Len(G0.nodes)
           /\ \A k \in 1..Len(G0.nodes) :
                 /\ G.nodes[k].op = G0.nodes[k].op
                 /\ IF G0.nodes[k].op = "call_module" /\ Assembled(k)
                    THEN /\ G.nodes[k].name = BackendName(int(strip_submod_(G0.nodes[k].name)))
                         /\ ~startswith(G.nodes[k].name, "submod")
                    ELSE G.nodes[k] = G0.nodes[k]

\* a placeholder, inductor_1, thunder_2 and the output
C17_Witness ==
    /\ pc = "done"
    /\ LET G == graphs[result[1].split_gm]
       IN /\ Len(G.nodes) = 4
          /\ G.nodes[1].op = "placeholder"
          /\ G.nodes[1] = BeforeAssembly.nodes[1]
          /\ G.nodes[2].name = <<"inductor", "_", "1">>
          /\ G.nodes[3].name = <<"thunder", "_", "2">>
          /\ G.nodes[4] = BeforeAssembly.nodes[4]

\* the partition ids of the call nodes of G that bear a thunder name, in the order of
\* the nodes of G
ThunderCalls(G) ==
    LET named == SelectSeq(G.nodes, LAMBDA n : startswith(n.name, "thunder"))
    IN [k \in 1..Len(named) |-> int(<<named[k].name[3]>>)]

\* C18 (thunder_compiled_fns): the list holds callables of thunder_jit only, one for
\* each thunder partition the loop has passed, in the order of those partitions' call
\* nodes in the parent graph, which is the ascending order of their ids; the list
\* returned has exactly one callable for each id of supported_partitions.
C18_ThunderCompiledFns ==
    pc \in {"assemble", "return", "done"} =>
        LET fns == thunder_compiled_fns
        IN /\ \A k \in 1..Len(fns) :
                 /\ fns[k].kind = "callable"
                 /\ fns[k].backend = "thunder"
                 /\ fns[k].owner = split_gm
                 /\ fns[k].id \in supported_partitions
           /\ \A k \in 1..(Len(fns) - 1) : fns[k].id < fns[k + 1].id
           /\ [k \in 1..Len(fns) |-> fns[k].id] = ThunderCalls(graphs[split_gm])
           /\ pc \in {"return", "done"} =>
                 /\ {fns[k].id : k \in 1..Len(fns)} = supported_partitions
                 /\ Len(fns) = Cardinality(supported_partitions)
           /\ pc = "done" => result[1].info.thunder_compiled_fns = fns

C18_Witness ==
    /\ pc = "done"
    /\ supported_partitions = {1, 3}
    /\ Len(result[1].info.thunder_compiled_fns) = 2
    /\ Cardinality(CallsOf("torch_inductor")) = 1

\* the checkpoint nodes visited that were put into a thunder partition
CheckpointNodesInThunder ==
    {i \in Visited : /\ gm[i].target = tag_activation_checkpoint
                     /\ IdsOf(i) # {}
                     /\ IdsOf(i) \subseteq supported_partitions}

\* C19 (checkpoint flag): a checkpoint node lies in a thunder partition only when the
\* flag is set, and the flag is set only when such a node does; so a rewritten target
\* is found in the copy of the split graph alone, made under the flag, and never in a
\* submodule of the graph split_module returned. A callback call on a checkpoint node
\* in a context region, or on one the predicate rejects, or on a node that is no
\* checkpoint node, leaves the flag as it is.
C19_CheckpointFlag ==
    /\ [](/\ CheckpointNodesInThunder # {} <=> has_thunder_tracable_checkpoint
          /\ \A i \in CheckpointNodesInThunder : ~InContext(i) /\ gm[i].sup
          /\ RewrittenIn(graphs.orig) = {}
          /\ RewrittenIn(graphs.copy) # {} =>
                /\ has_thunder_tracable_checkpoint
                /\ split_gm = "copy"
                /\ origin_split_gm = "orig"
                /\ \A x \in RewrittenIn(graphs.copy) :
                      /\ x[1] \in supported_partitions
                      /\ \E i \in CheckpointNodesInThunder :
                            IdsOf(i) = {x[1]} /\ BodyOf(graphs.copy, x[1])[x[2]].name = i)
    /\ [][(/\ pc = "split"
           /\ idx <= Len(gm)
           /\ \/ InContext(idx)
              \/ ~gm[idx].sup
              \/ gm[idx].target # tag_activation_checkpoint)
          => UNCHANGED has_thunder_tracable_checkpoint]_vars

\* a checkpoint node in a context region that the predicate supports and one it
\* rejects left the flag unset; a third one set it, and its target was rewritten
C19_Witness ==
    /\ pc = "done"
    /\ \E i, j, k \in Visited :
          /\ i < j /\ j < k
          /\ gm[i].target = tag_activation_checkpoint /\ InContext(i) /\ gm[i].sup
          /\ gm[j].target = tag_activation_checkpoint /\ ~InContext(j) /\ ~gm[j].sup
          /\ CheckpointNodesInThunder = {k}
    /\ Cardinality(RewrittenIn(graphs.copy)) = 1

\* the verdict of the call node visited last, as prev_value holds it
LastVerdict ==
    IF VisitedPlaces = <<>> THEN <<>>
    ELSE <<ClassifiedSupported(VisitedPlaces[Len(VisitedPlaces)])>>

\* C20 (monotonicity): a step of the pass leaves partition_cnt as it is or adds one to
\* it, and removes nothing from supported_partitions; supported_partitions is always a
\* subset of 1..partition_cnt and prev_value is the verdict of the call node visited
\* last; no step after the split changes prev_value, partition_cnt or
\* supported_partitions, so during assembly the call node of a partition is taken for
\* a thunder partition iff the partition's nodes were classified as supported.
C20_Monotonicity ==
    /\ [](/\ supported_partitions \subseteq 1..partition_cnt
          /\ prev_value = LastVerdict
          /\ pc = "assemble" =>
                \A k \in pos..Len(graphs[split_gm].nodes) :
                    LET node == graphs[split_gm].nodes[k]
                    IN node.op = "call_module" =>
                          (is_thunder_supported_partition(node) <=>
                              \A i \in NodesOfPartition(int(strip_submod_(node.name))) :
                                  ClassifiedSupported(i)))
    /\ [][/\ partition_cnt' \in {partition_cnt, partition_cnt + 1}
          /\ supported_partitions \subseteq supported_partitions'
          /\ pc # "split" => UNCHANGED <<prev_value, partition_cnt, supported_partitions>>]_vars

\* supported, unsupported, supported: three regions, assembled to the end
C20_Witness ==
    /\ pc = "done"
    /\ partition_cnt = 3
    /\ supported_partitions = {1, 3}
    /\ prev_value = <<TRUE>>
    /\ Len(calls) >= 7
====
